---- MODULE Spec2Model ----
(***************************************************************************)
(* File integrity monitor: FileWatcherService (registry, directory watch   *)
(* set, lifecycle) and FileIntegrityHandler (cooldown gate, integrity      *)
(* check, automatic restore), src/backend/file_watcher.py.                 *)
(*                                                                         *)
(* One control thread issues Add / Remove / Start / Stop / ClearEvents.    *)
(* Every successful Start creates a new Observer (worker thread) and a new *)
(* handler; they are numbered 1, 2, ... in creation order.  The service    *)
(* references the latest handler only, so the event log, the cooldown map, *)
(* the watch set and the notification queue are kept for the latest        *)
(* handler/observer (observer n is the one created together with handler   *)
(* n); a worker of an earlier observer that is still inside                *)
(* a handler call (its join timed out) keeps its own position and goes on  *)
(* writing to the disk.                                                    *)
(***************************************************************************)
EXTENDS Integers, Sequences, FiniteSets, TLC

\* ---------------------------------------------------------------- bounds
MaxTime == 11
MaxQueue == 2
MaxEvents == 7
MaxStarts == 2
MaxLog == 102

\* ------------------------------------------------------ program constants
CooldownSeconds == 5
JoinTimeout == 5
LogCapacity == 100

\* The clock is time.time(): far above the cooldown when the program starts,
\* so that the default last_time of 0 never suppresses a first notification.
StartTime == CooldownSeconds

\* ----------------------------------------------------------------- domains
Paths == {"/a/x", "/a/y", "/b/z"}
Dirs == {"/a", "/b"}

\* path strings a caller may pass that are not in normal form
RawPaths == {"/a/./x", "/b/../a/x"}
PathStrings == Paths \cup RawPaths

\* the path string used as it was passed
AbspathKeepsString(s) == s

\* os.path.abspath: "." and ".." components are resolved; a normalised
\* absolute path is returned as it is
Abspath(s) == IF s \in {"/a/./x", "/b/../a/x"} THEN "/a/x" ELSE s

\* os.path.dirname of a normalised path
Dirname(p) == IF p = "/b/z" THEN "/b" ELSE "/a"

Absent == "absent"
Contents == {"c0", "c1"}

NoHash == "none"
Hashes == {"H0", "H1", "HE"}

\* a file that exists and holds no bytes
Empty == ""

\* hashlib.sha256(...).hexdigest() of a file's content, None for a missing file
Sha256(c) == IF c = "c0" THEN "H0" ELSE IF c = Empty THEN "HE" ELSE "H1"

\* a file that exists and cannot be opened for reading
Unreadable == "unreadable"

\* _calculate_file_hash that hashes whatever the path holds
CalculateFileHashOfAnything(c) == Sha256(c)

\* _calculate_file_hash: None for a missing file and when reading raises
CalculateFileHash(c) == IF c = Absent \/ c = Unreadable THEN NoHash ELSE Sha256(c)

\* _calculate_file_hash logs the exception it caught, without the path
HashErrorEvents(c) ==
  IF c = Unreadable
  THEN <<[type |-> "error", message |-> "hash calculation error", filepath |-> "none"]>>
  ELSE <<>>

NoDoc == "none"
Docs == {"B0", "B1"}

NoEntry == [file_hash |-> NoHash, doc_id |-> NoDoc, present |-> FALSE]

FileInfo(h, d) == [file_hash |-> h, doc_id |-> d, present |-> TRUE]

Gens == 1..MaxStarts

NoCur ==
  [path |-> "none", reason |-> "none", data |-> "none",
   expected |-> "none", actual |-> "none"]

Event(t, m, p) == [type |-> t, message |-> m, filepath |-> p]

Notification(k, p) == [kind |-> k, path |-> p]

VARIABLES
  isRunning,            \* FileWatcherService._is_running
  protectedFiles,       \* FileWatcherService._protected_files
  watchedDirectories,   \* FileWatcherService._watched_directories
  observer,             \* FileWatcherService._observer (0 = None)
  handler,              \* FileWatcherService._handler  (0 = None)
  lock,                 \* holder of FileWatcherService._lock
  joinStart,            \* time at which stop() entered observer.join
  obsState,             \* per observer: "new", "running", "stopped"
  watches,              \* directories scheduled on the current observer
  queue,                \* notifications delivered to the current observer
  pc,                   \* per worker: position inside the handler call
  cur,                  \* per worker: the notification being handled
  events,               \* FileIntegrityHandler._events of the current handler
  lastEventTimes,       \* FileIntegrityHandler._last_event_times
  now,                  \* time.time()
  disk,                 \* content of each path on disk
  dirExists,            \* directories present on disk
  store,                \* backup store: doc_id -> stored blob
  callbacks,            \* per handler: which notification sinks were given
  window,               \* history: per path, the cooldown window last opened
                        \* and the violations and restore attempts in it
  owed,                 \* history: protected paths changed or deleted while
                        \* watched, not yet back at their baseline
  ret                   \* what the last control call returned

svcVars == <<isRunning, protectedFiles, watchedDirectories, observer, handler>>
obsVars == <<obsState, watches, queue>>
wrkVars == <<pc, cur>>
hdlVars == <<events, lastEventTimes, callbacks>>
envVars == <<now, disk, dirExists, store>>
stopVars == <<lock, joinStart>>

vars == <<svcVars, obsVars, wrkVars, hdlVars, envVars, stopVars, window, owed, ret>>

\* what a control call gave its caller: the value it returned, or an
\* exception that left the call (raised)
Ret(op, v) == [op |-> op, val |-> v, raised |-> FALSE]
NoRet == Ret("none", FALSE)

Raised(op) == [op |-> op, val |-> FALSE, raised |-> TRUE]

\* A stored blob: the content it decrypts to, valid = Fernet accepts the token
Blob(c, ok) == [content |-> c, valid |-> ok, present |-> TRUE]
NoBlob == [content |-> "none", valid |-> FALSE, present |-> FALSE]

\* The record of the last notification that reached the gate (seen: when,
\* seenKind, seenPassed) is kept only in runs that start from TrackedWindow.
NoWindow ==
  [start |-> 0, violations |-> 0, restores |-> 0, suppressed |-> 0,
   seen |-> 0, seenKind |-> "untracked", seenPassed |-> FALSE]

TrackedWindow == [NoWindow EXCEPT !.seenKind = "none"]

FreshWindow(w) == IF w.seenKind = "untracked" THEN NoWindow ELSE TrackedWindow

\* the service and its worker after construction
InitService ==
  /\ isRunning = FALSE
  /\ protectedFiles = [p \in PathStrings |-> NoEntry]
  /\ watchedDirectories = {}
  /\ observer = 0
  /\ handler = 0
  /\ lock = "free"
  /\ joinStart = 0
  /\ obsState = [g \in Gens |-> "new"]
  /\ watches = {}
  /\ queue = <<>>
  /\ pc = [g \in Gens |-> "idle"]
  /\ cur = [g \in Gens |-> NoCur]
  /\ events = <<>>
  /\ lastEventTimes = [p \in Paths |-> 0]
  /\ callbacks = [g \in Gens |-> [violation |-> FALSE, restore |-> FALSE]]
  /\ owed = {}
  /\ ret = NoRet

\* every file holds the content backed up as B0; B1 backs up other content
Init ==
  /\ InitService
  /\ window = [p \in Paths |-> NoWindow]
  /\ now = StartTime
  /\ disk = [p \in Paths |-> "c0"]
  /\ dirExists = Dirs
  /\ store = [d \in Docs |-> IF d = "B0" THEN Blob("c0", TRUE) ELSE Blob("c1", TRUE)]

\* ------------------------------------------------------------- registry
RegistryKeys == {p \in PathStrings : protectedFiles[p].present}

\* add_protected_file
AddProtectedFile(filepath, info) ==
  LET abs_path == Abspath(filepath)
      directory == Dirname(abs_path)
  IN
  /\ lock = "free"
  /\ protectedFiles' = [protectedFiles EXCEPT ![abs_path] = info]
  /\ watchedDirectories' = watchedDirectories \cup {directory}
  /\ watches' = IF /\ isRunning
                   /\ observer # 0
                   /\ directory \notin watchedDirectories
                   /\ directory \in dirExists
                THEN watches \cup {directory}
                ELSE watches
  /\ ret' = Ret("add", TRUE)
  /\ owed' = owed \ {abs_path}
  /\ UNCHANGED <<isRunning, observer, handler, obsState, queue, wrkVars,
                 hdlVars, envVars, stopVars, window>>

\* add_protected_file on a running service when observer.schedule raises for
\* the new directory (the watch cannot be placed): the entry and the
\* directory are recorded, the lock is released by the with block, and the
\* exception leaves the call
AddProtectedFileScheduleRaises(filepath, info) ==
  LET abs_path == Abspath(filepath)
      directory == Dirname(abs_path)
  IN
  /\ lock = "free"
  /\ isRunning
  /\ observer # 0
  /\ directory \notin watchedDirectories
  /\ directory \in dirExists
  /\ protectedFiles' = [protectedFiles EXCEPT ![abs_path] = info]
  /\ watchedDirectories' = watchedDirectories \cup {directory}
  /\ ret' = Raised("add")
  /\ owed' = owed \ {abs_path}
  /\ UNCHANGED <<isRunning, observer, handler, obsVars, wrkVars, hdlVars,
                 envVars, stopVars, window>>

\* remove_protected_file
\* remove_protected_file that reports success whatever the registry holds
RemoveProtectedFileAlwaysTrue(filepath) ==
  /\ lock = "free"
  /\ protectedFiles' = [protectedFiles EXCEPT ![Abspath(filepath)] = NoEntry]
  /\ ret' = Ret("remove", TRUE)
  /\ owed' = owed \ {Abspath(filepath)}
  /\ UNCHANGED <<isRunning, watchedDirectories, observer, handler, obsVars,
                 wrkVars, hdlVars, envVars, stopVars, window>>

RemoveProtectedFile(filepath) ==
  LET abs_path == Abspath(filepath) IN
  /\ lock = "free"
  /\ IF protectedFiles[abs_path].present
     THEN /\ protectedFiles' = [protectedFiles EXCEPT ![abs_path] = NoEntry]
          /\ ret' = Ret("remove", TRUE)
     ELSE /\ UNCHANGED protectedFiles
          /\ ret' = Ret("remove", FALSE)
  /\ owed' = owed \ {abs_path}
  /\ UNCHANGED <<isRunning, watchedDirectories, observer, handler, obsVars,
                 wrkVars, hdlVars, envVars, stopVars, window>>

\* ------------------------------------------------------------ lifecycle
\* start: the two refusals, then a new handler and a new observer with one
\* watch per existing watched directory
\* start without the already-running check
StartRefusesOnlyEmpty == RegistryKeys = {}

\* start without the empty-registry check
StartRefusesOnlyRunning == isRunning

StartRefuses == isRunning \/ RegistryKeys = {}

Start(onViolation, onRestore) ==
  /\ lock = "free"
  /\ IF StartRefuses
     THEN /\ ret' = Ret("start", FALSE)
          /\ UNCHANGED <<svcVars, obsVars, wrkVars, hdlVars, envVars, stopVars,
                         window, owed>>
     ELSE /\ handler < MaxStarts
          /\ handler' = handler + 1
          /\ observer' = handler + 1
          /\ callbacks' = [callbacks EXCEPT ![handler + 1] =
                             [violation |-> onViolation, restore |-> onRestore]]
          /\ events' = <<>>
          /\ lastEventTimes' = [p \in Paths |-> 0]
          /\ watches' = {d \in watchedDirectories : d \in dirExists}
          /\ queue' = <<>>
          /\ obsState' = [obsState EXCEPT ![handler + 1] = "running"]
          /\ isRunning' = TRUE
          /\ ret' = Ret("start", TRUE)
          /\ window' = [p \in Paths |-> FreshWindow(window[p])]
          /\ owed' = {}
          /\ UNCHANGED <<protectedFiles, watchedDirectories, wrkVars, envVars,
                         stopVars>>

\* start when observer.schedule or observer.start raises: the new handler
\* and the new observer are already assigned, the dispatcher thread never
\* runs, and the except clause returns False
StartRaises(onViolation, onRestore) ==
  /\ lock = "free"
  /\ ~StartRefuses
  /\ handler < MaxStarts
  /\ handler' = handler + 1
  /\ observer' = handler + 1
  /\ callbacks' = [callbacks EXCEPT ![handler + 1] =
                     [violation |-> onViolation, restore |-> onRestore]]
  /\ events' = <<>>
  /\ lastEventTimes' = [p \in Paths |-> 0]
  /\ watches' = {}
  /\ queue' = <<>>
  /\ isRunning' = FALSE
  /\ ret' = Ret("start", FALSE)
  /\ window' = [p \in Paths |-> FreshWindow(window[p])]
  /\ owed' = {}
  /\ UNCHANGED <<protectedFiles, watchedDirectories, obsState, wrkVars,
                 envVars, stopVars>>

\* stop, called while not running
\* stop without the not-running check
StopRefusesNever == FALSE

StopRefuses == ~isRunning

StopNotRunning ==
  /\ lock = "free"
  /\ StopRefuses
  /\ ret' = Ret("stop", FALSE)
  /\ UNCHANGED <<svcVars, obsVars, wrkVars, hdlVars, envVars, stopVars, window,
                 owed>>

\* observer.stop(): the dispatcher is told to stop and every watch is
\* unscheduled; the caller then waits in observer.join(timeout=5), holding
\* the service lock
\* observer.stop() left out
ObserverStopMissing(g) == UNCHANGED obsVars

ObserverStop(g) ==
  /\ obsState' = [obsState EXCEPT ![g] = "stopped"]
  /\ watches' = {}
  /\ queue' = <<>>

StopBegin ==
  /\ lock = "free"
  /\ ~StopRefuses
  /\ now + JoinTimeout <= MaxTime
  /\ lock' = "stop"
  /\ joinStart' = now
  /\ IF observer # 0
     THEN ObserverStop(observer)
     ELSE UNCHANGED obsVars
  /\ owed' = {}
  /\ UNCHANGED <<svcVars, wrkVars, hdlVars, envVars, window, ret>>

\* the worker thread has ended: told to stop and not inside a handler call
WorkerEnded(g) == obsState[g] \in {"stopped", "crashed"} /\ pc[g] = "idle"

\* observer.join() without a timeout
JoinReturnsNoTimeout(g) == WorkerEnded(g)

\* observer.join(timeout=5) returns
JoinReturns(g) == WorkerEnded(g) \/ now - joinStart >= JoinTimeout

StopFinish ==
  /\ lock = "stop"
  /\ observer # 0 => JoinReturns(observer)
  /\ observer' = 0
  /\ isRunning' = FALSE
  /\ lock' = "free"
  /\ ret' = Ret("stop", TRUE)
  /\ UNCHANGED <<protectedFiles, watchedDirectories, handler, obsVars, wrkVars,
                 hdlVars, envVars, window, owed>>
  /\ joinStart' = 0

\* FileWatcherService.clear_events
ClearEvents ==
  /\ handler # 0
  /\ events' = <<>>
  /\ UNCHANGED <<svcVars, obsVars, wrkVars, lastEventTimes, callbacks, envVars,
                 stopVars, window, owed, ret>>

\* FileIntegrityHandler._log_event, called once: one event appended
LogEvent(e) ==
  /\ handler # 0
  /\ Len(events) < MaxLog
  /\ events' = Append(events, e)
  /\ UNCHANGED <<svcVars, obsVars, wrkVars, lastEventTimes, callbacks, envVars,
                 stopVars, window, owed, ret>>

\* s[-k:] of a Python list: -0 is 0, so k = 0 takes the whole list
PySuffix(s, k) ==
  LET n == Len(s)
      from == IF k = 0 THEN 1
              ELSE IF k > 0 THEN (IF k >= n THEN 1 ELSE n - k + 1)
              ELSE (IF -k >= n THEN n + 1 ELSE -k + 1)
  IN [i \in 1..(n + 1 - from) |-> s[from + i - 1]]

\* s[::-1]
Reversed(s) == [i \in 1..Len(s) |-> s[Len(s) + 1 - i]]

\* get_events that answers only while the service runs
GetEventsOnlyRunning(limit) ==
  IF handler # 0 /\ isRunning THEN Reversed(PySuffix(events, limit)) ELSE <<>>

\* FileWatcherService.get_events -> FileIntegrityHandler.get_events
GetEvents(limit) ==
  IF handler # 0 THEN Reversed(PySuffix(events, limit)) ELSE <<>>

\* get_status
GetStatus ==
  [is_running |-> isRunning,
   protected_file_count |-> Cardinality(RegistryKeys),
   watched_directory_count |-> Cardinality(watchedDirectories),
   watched_directories |-> watchedDirectories,
   protected_files |-> RegistryKeys]

\* get_status returns once get_protected_files has had the registry mutex
GetStatusCall ==
  /\ lock = "free"
  /\ ret' = Ret("get_status", GetStatus)
  /\ UNCHANGED <<svcVars, obsVars, wrkVars, hdlVars, envVars, stopVars, window,
                 owed>>

ClearEventsCall ==
  /\ events' = IF handler # 0 THEN <<>> ELSE events
  /\ ret' = Ret("clear_events", FALSE)
  /\ UNCHANGED <<svcVars, obsVars, wrkVars, lastEventTimes, callbacks, envVars,
                 stopVars, window, owed>>

GetEventsCall(limit) ==
  /\ ret' = Ret("get_events", GetEvents(limit))
  /\ UNCHANGED <<svcVars, obsVars, wrkVars, hdlVars, envVars, stopVars, window,
                 owed>>

\* time.time() advances; a join(timeout) whose timeout has run out returns
\* before the clock moves on
Tick ==
  /\ now < MaxTime
  /\ lock = "stop" => now - joinStart < JoinTimeout
  /\ now' = now + 1
  /\ UNCHANGED <<svcVars, obsVars, wrkVars, hdlVars, disk, dirExists, store,
                 stopVars, window, owed, ret>>

\* ------------------------------------------------------- handler (worker)
\* What one handler step does: the events it logs, where the worker goes
\* next, what it carries there, whether the cooldown gate recorded the time
\* or suppressed the notification, and how many violations and restore
\* attempts (calls of _auto_restore) it made.
Outcome(evs, nextPc, c, gate, v, r) ==
  [evs |-> evs, pc |-> nextPc, cur |-> c, gate |-> gate, violations |-> v,
   restores |-> r, suppressed |-> 0, kind |-> "none"]

Ignored == Outcome(<<>>, "idle", NoCur, FALSE, 0, 0)

\* a gate that records the time of a suppressed notification too
SuppressedRestamps == [Ignored EXCEPT !.suppressed = 1, !.gate = TRUE]

\* _is_in_cooldown returned True: the handler returns, the time stays
Suppressed == [Ignored EXCEPT !.suppressed = 1]

Busy(p, reason, data) ==
  [path |-> p, reason |-> reason, data |-> data,
   expected |-> "none", actual |-> "none"]

\* the arguments of on_violation(filepath, expected_hash, current_hash)
ViolationCall(p, expected, current) ==
  [Busy(p, "modified", "none") EXCEPT !.expected = expected, !.actual = current]

\* the cooldown check left out
IsInCooldownNever(p) == FALSE

\* the window one time unit short
IsInCooldownOffByOne(p) == now - lastEventTimes[p] < CooldownSeconds - 1

\* the window one time unit long
IsInCooldownInclusive(p) == now - lastEventTimes[p] <= CooldownSeconds

\* one cooldown for all paths
IsInCooldownAnyPath(p) ==
  \E q \in Paths : now - lastEventTimes[q] < CooldownSeconds

\* _is_in_cooldown: the comparison; the caller records the time on a pass
IsInCooldown(p) == now - lastEventTimes[p] < CooldownSeconds

\* _read_file_content, as far as _check_integrity uses it: the preview event
\* is logged when the content read is not empty
PreviewEvents(p, c) ==
  IF c # Absent /\ c # "" /\ c # Unreadable
  THEN <<Event("warning", "attempted content", p)>>
  ELSE <<>>

\* _auto_restore that goes to the backup store whatever the entry holds
AutoRestoreBeginAnyDoc(p, reason) ==
  IF ~protectedFiles[p].present
  THEN Outcome(<<Event("error", "restore information not found", p)>>,
               "idle", NoCur, FALSE, 0, 1)
  ELSE Outcome(<<Event("restore", "starting automatic restore", p)>>,
               "fetch", Busy(p, reason, "B0"), FALSE, 0, 1)

\* _auto_restore up to the call of the storage collaborator
AutoRestoreBegin(p, reason) ==
  LET info == protectedFiles[p] IN
  IF ~info.present
  THEN Outcome(<<Event("error", "restore information not found", p)>>,
               "idle", NoCur, FALSE, 0, 1)
  ELSE IF info.doc_id = NoDoc
  THEN Outcome(<<Event("restore", "starting automatic restore", p),
                 Event("error", "encrypted backup not found", p)>>,
               "idle", NoCur, FALSE, 0, 1)
  ELSE Outcome(<<Event("restore", "starting automatic restore", p)>>,
               "fetch", Busy(p, reason, info.doc_id), FALSE, 0, 1)

\* _check_integrity that takes every digest it computes for a mismatch
CheckIntegrityNoCompare(g, p) ==
  LET info == protectedFiles[p]
      logged == <<Event("violation", "hash mismatch", p)>> \o PreviewEvents(p, disk[p])
      r == AutoRestoreBegin(p, "modified")
  IN
  IF ~info.present \/ info.file_hash = NoHash \/ CalculateFileHash(disk[p]) = NoHash
  THEN Ignored
  ELSE Outcome(logged \o r.evs, r.pc, r.cur, FALSE, 1, r.restores)

\* _check_integrity up to the violation callback (or, without one, up to
\* the call of the storage collaborator)
CheckIntegrity(g, p) ==
  LET info == protectedFiles[p]
      expected == info.file_hash
      current == CalculateFileHash(disk[p])
  IN
  IF ~info.present
  THEN Ignored
  ELSE IF expected = NoHash
  THEN Outcome(<<Event("warning", "expected hash not found", p)>>,
               "idle", NoCur, FALSE, 0, 0)
  ELSE IF current = NoHash
  THEN Outcome(HashErrorEvents(disk[p])
                 \o <<Event("error", "current hash could not be calculated", p)>>,
               "idle", NoCur, FALSE, 0, 0)
  ELSE IF current # expected
  THEN LET logged == <<Event("violation", "hash mismatch", p)>>
                       \o PreviewEvents(p, disk[p])
       IN IF callbacks[g].violation
          THEN Outcome(logged, "on_violation",
                       ViolationCall(p, expected, current), FALSE, 1, 0)
          ELSE LET r == AutoRestoreBegin(p, "modified")
               IN Outcome(logged \o r.evs, r.pc, r.cur, FALSE, 1, r.restores)
  ELSE Outcome(<<Event("success", "integrity verified", p)>>,
               "idle", NoCur, FALSE, 0, 0)

\* on_modified without the registry filter
OnModifiedUnfiltered(g, p) ==
  IF IsInCooldown(p)
  THEN Suppressed
  ELSE LET c == CheckIntegrity(g, p)
       IN Outcome(<<Event("info", "file modification detected", p)>> \o c.evs,
                  c.pc, c.cur, TRUE, c.violations, c.restores)

\* on_modified
OnModified(g, p) ==
  IF ~protectedFiles[p].present
  THEN Ignored
  ELSE IF IsInCooldown(p)
  THEN Suppressed
  ELSE LET c == CheckIntegrity(g, p)
       IN Outcome(<<Event("info", "file modification detected", p)>> \o c.evs,
                  c.pc, c.cur, TRUE, c.violations, c.restores)

\* on_deleted without the cooldown check
OnDeletedUngated(g, p) ==
  IF ~protectedFiles[p].present
  THEN Ignored
  ELSE LET r == AutoRestoreBegin(p, "deleted")
       IN Outcome(<<Event("violation", "protected file deleted", p)>> \o r.evs,
                  r.pc, r.cur, FALSE, 1, r.restores)

\* on_deleted
OnDeleted(g, p) ==
  IF ~protectedFiles[p].present
  THEN Ignored
  ELSE IF IsInCooldown(p)
  THEN Suppressed
  ELSE LET r == AutoRestoreBegin(p, "deleted")
       IN Outcome(<<Event("violation", "protected file deleted", p)>> \o r.evs,
                  r.pc, r.cur, TRUE, 1, r.restores)

\* a handler whose on_created and on_moved do what on_modified does
HandlerDispatchAnyKind(g, n) ==
  IF n.kind = "deleted" THEN [OnDeleted(g, n.path) EXCEPT !.kind = n.kind]
  ELSE [OnModified(g, n.path) EXCEPT !.kind = n.kind]

\* FileSystemEventHandler.dispatch: by event kind; on_created and on_moved
\* are the inherited methods, which do nothing
HandlerDispatch(g, n) ==
  IF n.kind = "modified" THEN [OnModified(g, n.path) EXCEPT !.kind = n.kind]
  ELSE IF n.kind = "deleted" THEN [OnDeleted(g, n.path) EXCEPT !.kind = n.kind]
  ELSE [Ignored EXCEPT !.kind = n.kind]

\* _auto_restore that writes whatever came back from the store
AfterFetchUnchecked(g) ==
  Outcome(<<>>, "write",
          Busy(cur[g].path, cur[g].reason, store[cur[g].data].content),
          FALSE, 0, 0)

\* _auto_restore: the storage collaborator returned, then decrypt
AfterFetch(g) ==
  LET p == cur[g].path
      blob == store[cur[g].data]
  IN
  IF ~blob.present
  THEN Outcome(<<Event("error", "encrypted backup not found", p)>>,
               "idle", NoCur, FALSE, 0, 0)
  ELSE IF ~blob.valid
  THEN Outcome(<<Event("error", "restore error", p)>>,
               "idle", NoCur, FALSE, 0, 0)
  ELSE IF blob.content = ""
  THEN Outcome(<<Event("error", "encrypted backup not found", p)>>,
               "idle", NoCur, FALSE, 0, 0)
  ELSE Outcome(<<>>, "write", Busy(p, cur[g].reason, blob.content), FALSE, 0, 0)

\* _auto_restore: after the file was written
AfterWrite(g) ==
  LET p == cur[g].path IN
  IF callbacks[g].restore
  THEN Outcome(<<Event("success", "file restored successfully", p)>>,
               "on_restore", cur[g], FALSE, 0, 0)
  ELSE Outcome(<<Event("success", "file restored successfully", p)>>,
               "idle", NoCur, FALSE, 0, 0)

Min(a, b) == IF a < b THEN a ELSE b

\* _log_event: events go to the log of the handler the worker belongs to
LogEvents(g, evs) == IF handler = g THEN events \o evs ELSE events

\* The window a passed notification falls in: a new one when the last one
\* opened at least a cooldown ago; and the last notification that reached
\* the gate: when, of which kind, and whether it passed
WindowAfter(g, p, o) ==
  LET w == window[p]
      opened == IF o.gate /\ now - w.start >= CooldownSeconds
                THEN [NoWindow EXCEPT !.start = now]
                ELSE w
      gated == (o.gate \/ o.suppressed = 1) /\ w.seenKind # "untracked"
      \* a notification the handler dropped before the gate
      dropped == /\ o.kind # "none"
                 /\ ~o.gate
                 /\ o.suppressed = 0
                 /\ w.seenKind # "untracked"
  IN IF dropped
     THEN [w EXCEPT !.seen = now,
                    !.seenKind = IF o.kind \in {"modified", "deleted"}
                                 THEN "unenrolled" ELSE o.kind,
                    !.seenPassed = FALSE]
     ELSE
     [start |-> opened.start,
      violations |-> Min(2, opened.violations + o.violations),
      restores |-> Min(2, opened.restores + o.restores),
      suppressed |-> Min(2, opened.suppressed + o.suppressed),
      seen |-> IF gated THEN now ELSE w.seen,
      seenKind |-> IF gated THEN o.kind ELSE w.seenKind,
      seenPassed |-> IF gated THEN o.gate ELSE w.seenPassed]

\* the effect of a handler step on worker, log, cooldown map and history
Apply(g, p, o) ==
  /\ pc' = [pc EXCEPT ![g] = o.pc]
  /\ cur' = [cur EXCEPT ![g] = o.cur]
  /\ events' = LogEvents(g, o.evs)
  /\ lastEventTimes' = IF o.gate /\ handler = g
                       THEN [lastEventTimes EXCEPT ![p] = now]
                       ELSE lastEventTimes
  /\ window' = IF handler = g
               THEN [window EXCEPT ![p] = WindowAfter(g, p, o)]
               ELSE window

\* room in the log for everything one notification can log (at most five
\* events), needed by a handler call that logs at all
LogHasRoom(o) == o.evs = <<>> \/ Len(events) + 5 <= MaxEvents

\* the observer thread takes the next notification and calls the handler
Dispatch(g) ==
  /\ handler = g
  /\ obsState[g] = "running"
  /\ pc[g] = "idle"
  /\ queue # <<>>
  /\ LogHasRoom(HandlerDispatch(g, Head(queue)))
  /\ queue' = Tail(queue)
  /\ Apply(g, Head(queue).path, HandlerDispatch(g, Head(queue)))
  /\ UNCHANGED <<svcVars, obsState, watches, callbacks, envVars, stopVars, owed, ret>>

\* a handler that takes the registry mutex for its restore lookup
OnViolationReturnLocked(g) ==
  /\ lock = "free"
  /\ pc[g] = "on_violation"
  /\ Apply(g, cur[g].path, AutoRestoreBegin(cur[g].path, "modified"))
  /\ UNCHANGED <<svcVars, obsVars, callbacks, envVars, stopVars, owed, ret>>

\* the violation callback returns and _check_integrity calls _auto_restore
OnViolationReturn(g) ==
  /\ pc[g] = "on_violation"
  /\ Apply(g, cur[g].path, AutoRestoreBegin(cur[g].path, "modified"))
  /\ UNCHANGED <<svcVars, obsVars, callbacks, envVars, stopVars, owed, ret>>

\* get_encrypted_data and decrypt return
FetchDone(g) ==
  /\ pc[g] = "fetch"
  /\ Apply(g, cur[g].path, AfterFetch(g))
  /\ UNCHANGED <<svcVars, obsVars, callbacks, envVars, stopVars, owed, ret>>

\* the backup of p can be fetched and decrypted, and is the baseline content
BackupUsable(p) ==
  LET info == protectedFiles[p] IN
  /\ info.present
  /\ info.doc_id # NoDoc
  /\ store[info.doc_id].present
  /\ store[info.doc_id].valid
  /\ Sha256(store[info.doc_id].content) = info.file_hash

\* p is being watched: enrolled, its directory subscribed, the observer live
Watched(p) ==
  /\ protectedFiles[p].present
  /\ handler # 0
  /\ obsState[handler] = "running"
  /\ Dirname(p) \in watches

\* the paths owed a restore once p holds c
OwedAfter(p, c) ==
  IF protectedFiles[p].present /\ CalculateFileHash(c) = protectedFiles[p].file_hash
  THEN owed \ {p}
  ELSE IF Watched(p) /\ BackupUsable(p)
  THEN owed \cup {p}
  ELSE owed

\* the notifications the operating system delivers for n raw events on p
Deliver(kind, p, n) ==
  IF handler # 0 /\ obsState[handler] = "running" /\ Dirname(p) \in watches
  THEN queue \o [i \in 1..n |-> Notification(kind, p)]
  ELSE queue

\* os.makedirs and open(filepath, "wb"): the file is created or truncated
OpenForWrite(g) ==
  /\ pc[g] = "write"
  /\ dirExists' = dirExists \cup {Dirname(cur[g].path)}
  /\ disk' = [disk EXCEPT ![cur[g].path] = Empty]
  /\ pc' = [pc EXCEPT ![g] = "writing"]
  /\ UNCHANGED <<svcVars, obsVars, cur, hdlVars, now, store, stopVars, window,
                 owed, ret>>

\* f.write(decrypted_data) and the close of the file
WriteFile(g) ==
  /\ pc[g] = "writing"
  /\ disk' = [disk EXCEPT ![cur[g].path] = cur[g].data]
  /\ queue' = Deliver("modified", cur[g].path, 1)
  /\ owed' = OwedAfter(cur[g].path, cur[g].data)
  /\ Apply(g, cur[g].path, AfterWrite(g))
  /\ UNCHANGED <<svcVars, obsState, watches, callbacks, now, dirExists, store,
                 stopVars, ret>>

\* an exception leaves the handler call of worker g uncaught: the call ends
\* there, and the dispatcher thread of the observer ends with it; what was
\* queued is never taken up
ThreadDies(g) ==
  /\ obsState' = [obsState EXCEPT ![g] = IF @ = "running" THEN "crashed" ELSE @]
  /\ UNCHANGED <<watches, queue>>

\* the violation callback raises: nothing in _check_integrity, on_modified
\* or the service catches it
OnViolationRaises(g) ==
  /\ pc[g] = "on_violation"
  /\ Apply(g, cur[g].path, Outcome(<<>>, "idle", NoCur, FALSE, 0, 0))
  /\ ThreadDies(g)
  /\ UNCHANGED <<svcVars, callbacks, envVars, stopVars, owed, ret>>

\* os.makedirs or open(filepath, "wb") raises: caught by _auto_restore
OpenForWriteFails(g) ==
  /\ pc[g] = "write"
  /\ Apply(g, cur[g].path,
           Outcome(<<Event("error", "restore error", cur[g].path)>>,
                   "idle", NoCur, FALSE, 0, 0))
  /\ UNCHANGED <<svcVars, obsVars, callbacks, envVars, stopVars, owed, ret>>

\* f.write raises after the file was truncated: caught by _auto_restore
WriteFileFails(g) ==
  /\ pc[g] = "writing"
  /\ queue' = Deliver("modified", cur[g].path, 1)
  /\ Apply(g, cur[g].path,
           Outcome(<<Event("error", "restore error", cur[g].path)>>,
                   "idle", NoCur, FALSE, 0, 0))
  /\ UNCHANGED <<svcVars, obsState, watches, callbacks, envVars, stopVars, owed, ret>>

\* the restore callback raises: caught by _auto_restore
OnRestoreRaises(g) ==
  /\ pc[g] = "on_restore"
  /\ Apply(g, cur[g].path,
           Outcome(<<Event("error", "restore error", cur[g].path)>>,
                   "idle", NoCur, FALSE, 0, 0))
  /\ UNCHANGED <<svcVars, obsVars, callbacks, envVars, stopVars, owed, ret>>

\* the restore callback returns
OnRestoreReturn(g) ==
  /\ pc[g] = "on_restore"
  /\ Apply(g, cur[g].path, Outcome(<<>>, "idle", NoCur, FALSE, 0, 0))
  /\ UNCHANGED <<svcVars, obsVars, callbacks, envVars, stopVars, owed, ret>>

\* ------------------------------------------------------------ environment
\* another process writes content c to p: n raw modify notifications
FsWrite(p, c, n) ==
  /\ Dirname(p) \in dirExists
  /\ Len(queue) + n <= MaxQueue
  /\ disk' = [disk EXCEPT ![p] = c]
  /\ queue' = Deliver("modified", p, n)
  /\ owed' = OwedAfter(p, c)
  /\ UNCHANGED <<svcVars, obsState, watches, wrkVars, hdlVars, now, dirExists,
                 store, stopVars, window, ret>>

\* another process deletes p
FsDelete(p) ==
  /\ disk[p] # Absent
  /\ Len(queue) + 1 <= MaxQueue
  /\ disk' = [disk EXCEPT ![p] = Absent]
  /\ queue' = Deliver("deleted", p, 1)
  /\ owed' = OwedAfter(p, Absent)
  /\ UNCHANGED <<svcVars, obsState, watches, wrkVars, hdlVars, now, dirExists,
                 store, stopVars, window, ret>>

\* another process renames a file holding c over p: a moved notification
FsRenameOver(p, c) ==
  /\ Dirname(p) \in dirExists
  /\ Len(queue) + 1 <= MaxQueue
  /\ disk' = [disk EXCEPT ![p] = c]
  /\ queue' = Deliver("moved", p, 1)
  /\ owed' = OwedAfter(p, c)
  /\ UNCHANGED <<svcVars, obsState, watches, wrkVars, hdlVars, now, dirExists,
                 store, stopVars, window, ret>>

\* another process creates the missing p with content c, written before the
\* file is linked under its name: a created notification
FsCreate(p, c) ==
  /\ Dirname(p) \in dirExists
  /\ disk[p] = Absent
  /\ Len(queue) + 1 <= MaxQueue
  /\ disk' = [disk EXCEPT ![p] = c]
  /\ queue' = Deliver("created", p, 1)
  /\ owed' = OwedAfter(p, c)
  /\ UNCHANGED <<svcVars, obsState, watches, wrkVars, hdlVars, now, dirExists,
                 store, stopVars, window, ret>>

\* another process takes the read permission of p away
FsChmod(p) ==
  /\ disk[p] \notin {Absent, Unreadable}
  /\ Len(queue) + 1 <= MaxQueue
  /\ disk' = [disk EXCEPT ![p] = Unreadable]
  /\ queue' = Deliver("modified", p, 1)
  /\ UNCHANGED <<svcVars, obsState, watches, wrkVars, hdlVars, now, dirExists,
                 store, stopVars, window, owed, ret>>

\* the backup document d is deleted from the store
StoreDelete(d) ==
  /\ store[d].present
  /\ store' = [store EXCEPT ![d] = NoBlob]
  /\ UNCHANGED <<svcVars, obsVars, wrkVars, hdlVars, now, disk, dirExists,
                 stopVars, window, owed, ret>>

\* the backup document d no longer decrypts (another key, a damaged token)
StoreCorrupt(d) ==
  /\ store[d].present
  /\ store[d].valid
  /\ store' = [store EXCEPT ![d].valid = FALSE]
  /\ UNCHANGED <<svcVars, obsVars, wrkVars, hdlVars, now, disk, dirExists,
                 stopVars, window, owed, ret>>

\* another process creates directory d
FsMkdir(d) ==
  /\ d \notin dirExists
  /\ dirExists' = dirExists \cup {d}
  /\ UNCHANGED <<svcVars, obsVars, wrkVars, hdlVars, now, disk, store, stopVars,
                 window, owed, ret>>

\* ------------------------------------------------------------ the system
Infos == {FileInfo("H0", "B0"), FileInfo("H1", "B0")}

Worker(g) ==
  \/ Dispatch(g)
  \/ OnViolationReturn(g)
  \/ FetchDone(g)
  \/ OpenForWrite(g)
  \/ WriteFile(g)
  \/ OnRestoreReturn(g)

\* The pipeline: one enrolled path, one run of the service, every kind of
\* change to the file and to its registry entry.
Next ==
  \/ \E info \in Infos : AddProtectedFile("/a/x", info)
  \/ RemoveProtectedFile("/a/x")
  \/ Start(TRUE, TRUE)
  \/ ClearEvents
  \/ Tick
  \/ \E g \in Gens : Worker(g)
  \/ \E c \in Contents, n \in 1..2 : FsWrite("/a/x", c, n)
  \/ FsDelete("/a/x")

Spec == Init /\ [][Next]_vars

\* The lifecycle: paths in two directories enrolled and removed, the
\* service started and stopped while the worker handles changes of one file.
LifeNext ==
  \/ \E p \in {"/a/x", "/b/z"} : AddProtectedFile(p, FileInfo("H0", "B0"))
  \/ \E p \in {"/a/x", "/b/z"} : RemoveProtectedFile(p)
  \/ Start(TRUE, TRUE)
  \/ StopNotRunning
  \/ StopBegin
  \/ StopFinish
  \/ Tick
  \/ \E g \in Gens : Worker(g)
  \/ FsWrite("/a/x", "c1", 1)

LifeSpec == Init /\ [][LifeNext]_vars

\* The event log under a storm of deletions that are each restored: the
\* handler logs violation, restore, success, again and again.
StormEvent(n) ==
  IF n % 3 = 0 THEN Event("violation", "protected file deleted", "/a/x")
  ELSE IF n % 3 = 1 THEN Event("restore", "starting automatic restore", "/a/x")
  ELSE Event("success", "file restored successfully", "/a/x")

Limits == {0, 1, 2, 50, 200}

LogNext ==
  \/ AddProtectedFile("/a/x", FileInfo("H0", "B0"))
  \/ Start(TRUE, TRUE)
  \/ LogEvent(StormEvent(Len(events)))
  \/ \E limit \in Limits : GetEventsCall(limit)
  \/ ClearEvents

LogSpec == Init /\ [][LogNext]_vars

\* The registry: paths of two directories, passed in several spellings,
\* enrolled and removed while the service is stopped or running and while
\* the worker restores a changed file; directory /b does not exist at first.
RegInit ==
  /\ InitService
  /\ window = [p \in Paths |-> NoWindow]
  /\ now = StartTime
  /\ disk = [p \in Paths |-> IF Dirname(p) = "/b" THEN Absent ELSE "c0"]
  /\ dirExists = {"/a"}
  /\ store = [d \in Docs |-> IF d = "B0" THEN Blob("c0", TRUE) ELSE Blob("c1", TRUE)]

RegStrings == {"/a/x", "/a/./x", "/b/../a/x", "/a/y", "/b/z"}

RegInfos == {FileInfo("H0", "B0"), FileInfo("H1", "B1")}

RegNext ==
  \/ \E s \in RegStrings, info \in RegInfos : AddProtectedFile(s, info)
  \/ \E s \in RegStrings : RemoveProtectedFile(s)
  \/ Start(TRUE, TRUE)
  \/ StopNotRunning
  \/ StopBegin
  \/ StopFinish
  \/ FsMkdir("/b")
  \/ FsWrite("/a/x", "c1", 1)
  \/ \E g \in Gens : Worker(g)

RegSpec == RegInit /\ [][RegNext]_vars

\* The cooldown gate: one enrolled path whose file is written and deleted
\* at any pace while time passes; the last notification that reached the
\* gate is recorded.
GateInit ==
  /\ InitService
  /\ window = [p \in Paths |-> TrackedWindow]
  /\ now = StartTime
  /\ disk = [p \in Paths |-> "c0"]
  /\ dirExists = Dirs
  /\ store = [d \in Docs |-> IF d = "B0" THEN Blob("c0", TRUE) ELSE Blob("c1", TRUE)]

GateNext ==
  \/ AddProtectedFile("/a/x", FileInfo("H0", "B0"))
  \/ Start(TRUE, TRUE)
  \/ Tick
  \/ \E g \in Gens : Worker(g)
  \/ \E c \in Contents, n \in 1..2 : FsWrite("/a/x", c, n)
  \/ FsDelete("/a/x")

GateSpec == GateInit /\ [][GateNext]_vars

\* Restores that cannot be done: the entry of the enrolled path names the
\* good backup B0, the backup B1 that gets lost or damaged, or no backup.
FailInfos == {FileInfo("H0", "B0"), FileInfo("H0", "B1"), FileInfo("H0", NoDoc)}

FailNext ==
  \/ \E info \in FailInfos : AddProtectedFile("/a/x", info)
  \/ \E v \in BOOLEAN : Start(v, TRUE)
  \/ ClearEvents
  \/ \E g \in Gens : Worker(g)
  \/ FsWrite("/a/x", "c1", 1)
  \/ FsDelete("/a/x")
  \/ StoreDelete("B1")
  \/ StoreCorrupt("B1")

FailSpec == Init /\ [][FailNext]_vars

\* Faults while a notification is handled: the enrolled file becomes
\* unreadable or vanishes, the restore cannot write, a notification sink
\* raises.
Fails(g) ==
  \/ OnViolationRaises(g)
  \/ OpenForWriteFails(g)
  \/ WriteFileFails(g)
  \/ OnRestoreRaises(g)

FaultNext ==
  \/ AddProtectedFile("/a/x", FileInfo("H0", "B0"))
  \/ Start(TRUE, TRUE)
  \/ ClearEvents
  \/ \E g \in Gens : Worker(g)
  \/ \E g \in Gens : Fails(g)
  \/ FsWrite("/a/x", "c1", 1)
  \/ FsDelete("/a/x")
  \/ FsChmod("/a/x")

FaultSpec == Init /\ [][FaultNext]_vars

\* The control calls, issued in any order on a service whose worker
\* handles the changes of one file, with watches that cannot be placed and
\* observers that cannot be started.
CtlNext ==
  \/ \E p \in {"/a/x", "/b/z"} : AddProtectedFile(p, FileInfo("H0", "B0"))
  \/ \E p \in {"/a/x", "/b/z"} :
       AddProtectedFileScheduleRaises(p, FileInfo("H0", "B0"))
  \/ RemoveProtectedFile("/b/z")
  \/ Start(TRUE, TRUE)
  \/ StartRaises(TRUE, TRUE)
  \/ StopNotRunning
  \/ StopBegin
  \/ StopFinish
  \/ GetStatusCall
  \/ GetEventsCall(1)
  \/ ClearEventsCall
  \/ \E g \in Gens : Worker(g)
  \/ FsWrite("/a/x", "c1", 1)

CtlSpec == Init /\ [][CtlNext]_vars

\* Two enrolled files of one directory, written at any pace while time
\* passes: one is rewritten with its baseline content, the other changed.
PairPaths == {"/a/x", "/a/y"}

PairNext ==
  \/ \E p \in PairPaths : AddProtectedFile(p, FileInfo("H0", "B0"))
  \/ Start(TRUE, TRUE)
  \/ Tick
  \/ \E g \in Gens : Worker(g)
  \/ FsWrite("/a/x", "c0", 1)
  \/ FsWrite("/a/y", "c1", 1)

PairSpec == Init /\ [][PairNext]_vars

\* What the handler filters out: notifications for a file that was never
\* enrolled or is no longer enrolled, and notifications of other kinds than
\* modified and deleted for the enrolled file.
FilterNext ==
  \/ AddProtectedFile("/a/x", FileInfo("H0", "B0"))
  \/ AddProtectedFile("/a/y", FileInfo("H0", "B0"))
  \/ RemoveProtectedFile("/a/x")
  \/ Start(TRUE, TRUE)
  \/ \E g \in Gens : Worker(g)
  \/ FsWrite("/a/x", "c1", 1)
  \/ FsDelete("/a/x")
  \/ FsRenameOver("/a/x", "c1")
  \/ FsCreate("/a/x", "c1")

FilterSpec == GateInit /\ [][FilterNext]_vars

\* A deleted file whose backup decrypts to other content than the baseline
\* digest of the registry entry stands for; deletion is the only change
\* made from outside, so /a/x holds c1 only after a restore has written it.
LoopNext ==
  \/ AddProtectedFile("/a/x", FileInfo("H0", "B1"))
  \/ Start(TRUE, TRUE)
  \/ ClearEvents
  \/ Tick
  \/ \E g \in Gens : Worker(g)
  \/ FsDelete("/a/x")

LoopSpec == Init /\ [][LoopNext]_vars

\* ------------------------------------------------------- the HTTP API
\* The files the API works on, all of one directory; generate_doc_id gives
\* each path its own document id, and the document keeps the path.
ApiPaths == {"/a/x", "/a/y"}

DocId(p) == IF p = "/a/x" THEN "B0" ELSE "B1"

OriginalPath(d) == IF d = "B0" THEN "/a/x" ELSE "/a/y"

\* the backup store before the first upload
ApiInit ==
  /\ InitService
  /\ window = [p \in Paths |-> NoWindow]
  /\ now = StartTime
  /\ disk = [p \in Paths |-> "c0"]
  /\ dirExists = Dirs
  /\ store = [d \in Docs |-> NoBlob]

\* delete_file takes the file out of the registry only while the service runs
DeleteFileRemovesWhen(present) == present /\ isRunning

\* POST /api/upload: the backup document is written, and the file is
\* enrolled when the service runs
ApiUploadFile(p) ==
  /\ lock = "free"
  /\ disk[p] \in Contents
  /\ store' = [store EXCEPT ![DocId(p)] = Blob(disk[p], TRUE)]
  /\ IF isRunning
     THEN /\ protectedFiles' = [protectedFiles EXCEPT
                                  ![p] = FileInfo(Sha256(disk[p]), DocId(p))]
          /\ watchedDirectories' = watchedDirectories \cup {Dirname(p)}
          /\ watches' = IF /\ observer # 0
                           /\ Dirname(p) \notin watchedDirectories
                           /\ Dirname(p) \in dirExists
                        THEN watches \cup {Dirname(p)}
                        ELSE watches
          /\ owed' = owed \ {p}
     ELSE UNCHANGED <<protectedFiles, watchedDirectories, watches, owed>>
  /\ ret' = Ret("upload", TRUE)
  /\ UNCHANGED <<isRunning, observer, handler, obsState, queue, wrkVars,
                 hdlVars, now, disk, dirExists, stopVars, window>>

\* DELETE /api/files/<doc_id>
ApiDeleteFile(d) ==
  /\ lock = "free"
  /\ store' = [store EXCEPT ![d] = NoBlob]
  /\ IF DeleteFileRemovesWhen(store[d].present)
     THEN /\ protectedFiles' = [protectedFiles EXCEPT ![OriginalPath(d)] = NoEntry]
          /\ owed' = owed \ {OriginalPath(d)}
     ELSE UNCHANGED <<protectedFiles, owed>>
  /\ ret' = Ret("delete_file", TRUE)
  /\ UNCHANGED <<isRunning, watchedDirectories, observer, handler, obsVars,
                 wrkVars, hdlVars, now, disk, dirExists, stopVars, window>>

\* POST /api/monitoring/start: every document of the store whose file
\* exists is enrolled next to the entries already there, then the service
\* is started unless it runs
ApiStartMonitoring ==
  LET files == {d \in Docs : store[d].present}
      adds == {d \in files : disk[OriginalPath(d)] # Absent}
      registry == [s \in PathStrings |->
                     IF \E d \in adds : OriginalPath(d) = s
                     THEN FileInfo(Sha256(store[DocId(s)].content), DocId(s))
                     ELSE protectedFiles[s]]
      dirs == watchedDirectories \cup {Dirname(OriginalPath(d)) : d \in adds}
  IN
  /\ lock = "free"
  /\ IF files = {}
     THEN /\ ret' = Ret("start_monitoring", FALSE)
          /\ UNCHANGED <<svcVars, obsVars, wrkVars, hdlVars, envVars, stopVars,
                         window, owed>>
     ELSE
     /\ protectedFiles' = registry
     /\ watchedDirectories' = dirs
     /\ IF isRunning
        THEN /\ watches' = IF observer # 0
                           THEN watches \cup {d \in dirs \ watchedDirectories :
                                                d \in dirExists}
                           ELSE watches
             /\ ret' = Ret("start_monitoring", TRUE)
             /\ owed' = owed \ {OriginalPath(d) : d \in adds}
             /\ UNCHANGED <<isRunning, observer, handler, obsState, queue,
                            wrkVars, hdlVars, envVars, stopVars, window>>
        ELSE IF \A s \in PathStrings : ~registry[s].present
        THEN /\ ret' = Ret("start_monitoring", FALSE)
             /\ UNCHANGED <<isRunning, observer, handler, obsVars, wrkVars,
                            hdlVars, envVars, stopVars, window, owed>>
        ELSE /\ handler < MaxStarts
             /\ handler' = handler + 1
             /\ observer' = handler + 1
             /\ callbacks' = [callbacks EXCEPT ![handler + 1] =
                                [violation |-> TRUE, restore |-> TRUE]]
             /\ events' = <<>>
             /\ lastEventTimes' = [p \in Paths |-> 0]
             /\ watches' = {d \in dirs : d \in dirExists}
             /\ queue' = <<>>
             /\ obsState' = [obsState EXCEPT ![handler + 1] = "running"]
             /\ isRunning' = TRUE
             /\ ret' = Ret("start_monitoring", TRUE)
             /\ window' = [p \in Paths |-> FreshWindow(window[p])]
             /\ owed' = {}
             /\ UNCHANGED <<wrkVars, envVars, stopVars>>

\* The API: upload, delete, start and stop of the monitoring (stop is the
\* service's stop), with a file changed from outside and the worker.
ApiNext ==
  \/ \E p \in ApiPaths : ApiUploadFile(p)
  \/ \E d \in Docs : ApiDeleteFile(d)
  \/ ApiStartMonitoring
  \/ StopNotRunning
  \/ StopBegin
  \/ StopFinish
  \/ \E g \in Gens : Worker(g)
  \/ FsWrite("/a/x", "c1", 1)

ApiSpec == ApiInit /\ [][ApiNext]_vars

\* ================================================================ claims

\* the worker of the current handler is past a hash mismatch it detected
InRestoreOfMismatch(g) ==
  /\ handler = g
  /\ pc[g] \in {"fetch", "write", "writing", "on_restore"}
  /\ cur[g].reason = "modified"

Quiescent ==
  /\ isRunning
  /\ lock = "free"
  /\ queue = <<>>
  /\ \A g \in Gens : pc[g] = "idle"

\* C2: a protected file that was modified to a non-baseline digest or
\* deleted while watched, and whose backup is usable, does not stay that
\* way: once the worker has handled every notification the file is back at
\* its baseline.
C2_TamperedIsRestored == Quiescent => owed = {}

\* the events a step appends to the log
Appended == SubSeq(events', Len(events) + 1, Len(events'))

Logs(evs, e) == \E i \in DOMAIN evs : evs[i] = e

\* C3: every delete notification for a protected path that the worker
\* takes up yields a violation event for the path and a hand-off to the
\* restore with reason deleted, whatever was processed for the path before.
C3_DeleteAlwaysViolation ==
  [][\A g \in Gens :
       (/\ Dispatch(g)
        /\ Head(queue).kind = "deleted"
        /\ protectedFiles[Head(queue).path].present)
       => /\ Len(events') > Len(events)
          /\ Logs(Appended, Event("violation", "protected file deleted",
                                  Head(queue).path))
          /\ Logs(Appended, Event("restore", "starting automatic restore",
                                  Head(queue).path))]_vars

\* C4: when a restore has written the file and reports success, the digest
\* of the file on disk is the baseline of the path's registry entry.
C4_RestoredMatchesBaseline ==
  [][\A g \in Gens :
       WriteFile(g) =>
         /\ protectedFiles'[cur[g].path].present
         /\ CalculateFileHash(disk'[cur[g].path])
              = protectedFiles'[cur[g].path].file_hash]_vars

OnlyRetChanges ==
  UNCHANGED <<svcVars, obsVars, wrkVars, hdlVars, envVars, stopVars, window,
              owed>>

\* C5: Start while running returns false and changes nothing: no new
\* observer or handler, same watches, same registry, log and running flag.
C5_StartWhileRunning ==
  [][(isRunning /\ Start(TRUE, TRUE))
       => (ret' = Ret("start", FALSE) /\ OnlyRetChanges)]_vars

C5_Witness ==
  /\ isRunning
  /\ ret = Ret("start", FALSE)
  /\ events # <<>>

\* C6: Start with an empty registry returns false and changes nothing; a
\* stopped service stays stopped, also when the registry was emptied by
\* Remove after earlier Adds.
C6_StartEmptyRegistry ==
  [][(RegistryKeys = {} /\ Start(TRUE, TRUE))
       => (ret' = Ret("start", FALSE) /\ OnlyRetChanges /\ isRunning' = isRunning)]_vars

C6_Witness ==
  /\ ~isRunning
  /\ RegistryKeys = {}
  /\ watchedDirectories # {}
  /\ ret = Ret("start", FALSE)

\* C7: Stop while stopped returns false and leaves the log, the watches,
\* the registry and the running flag as they were.
C7_StopWhileStopped ==
  [][(~isRunning /\ (StopNotRunning \/ StopBegin))
       => (ret' = Ret("stop", FALSE) /\ OnlyRetChanges)]_vars

C7_Witness ==
  /\ ~isRunning
  /\ handler # 0
  /\ events # <<>>
  /\ ret = Ret("stop", FALSE)

C9_StopReturns ==
  /\ [](lock = "stop" => now - joinStart <= JoinTimeout)
  /\ (lock = "stop") ~> (lock = "free")

\* C9 witness: the join has timed out with the worker still in a handler
C9_Witness ==
  /\ lock = "stop"
  /\ observer # 0
  /\ pc[observer] # "idle"
  /\ now - joinStart >= JoinTimeout

\* the distinct parent directories of the registry's paths
ParentDirs == {Dirname(p) : p \in RegistryKeys}

\* C10: while running, the subscribed and the reported watched directories
\* are exactly the parent directories of the registry's paths.
C10_WatchSetIsDerived ==
  (isRunning /\ lock = "free")
    => (watches = ParentDirs /\ watchedDirectories = ParentDirs)

\* C11: the event log never holds more than its capacity of 100 events.
C11_LogAtMostCapacity == Len(events) <= LogCapacity

\* the k most recently appended events, the most recent first
MostRecent(k) ==
  LET n == Len(events)
      m == IF k < n THEN k ELSE n
  IN [i \in 1..m |-> events[n + 1 - i]]

\* C12: GetEvents(limit) returns at most limit events and never more than
\* the capacity, namely the most recently appended ones with the most
\* recent first, and leaves the log as it was.
C12_GetEventsMostRecentFirst ==
  [][\A limit \in Limits :
       (handler # 0 /\ GetEventsCall(limit))
       => /\ Len(ret'.val) <= limit
          /\ Len(ret'.val) <= LogCapacity
          /\ ret'.val = MostRecent(limit)
          /\ events' = events]_vars

\* the normal form of each path string: "." and ".." resolved
CanonicalForm ==
  [s \in PathStrings |->
     IF s = "/a/./x" \/ s = "/b/../a/x" THEN "/a/x" ELSE s]

C14_RemoveOnlyThatEntry ==
  [][\A s \in RegStrings :
       RemoveProtectedFile(s)
       => /\ ret' = Ret("remove", protectedFiles[CanonicalForm[s]].present)
          /\ ~protectedFiles'[CanonicalForm[s]].present
          /\ \A q \in PathStrings \ {CanonicalForm[s]} :
                protectedFiles'[q] = protectedFiles[q]
          /\ events' = events
          /\ isRunning' = isRunning
          /\ ~protectedFiles[CanonicalForm[s]].present => OnlyRetChanges]_vars

\* C14 witness: a Remove has returned false on a running service with a
\* non-empty log and another path enrolled
C14_Witness ==
  /\ ret = Ret("remove", FALSE)
  /\ isRunning
  /\ events # <<>>
  /\ RegistryKeys = {"/b/z"}

\* C15: an Add on a running service, of a path whose existing parent
\* directory is not subscribed, subscribes the directory and keeps every
\* subscription there was.
C15_AddSubscribesDirectory ==
  [][\A s \in RegStrings, info \in RegInfos :
       (/\ isRunning
        /\ observer # 0
        /\ Dirname(CanonicalForm[s]) \in dirExists
        /\ Dirname(CanonicalForm[s]) \notin watches
        /\ AddProtectedFile(s, info))
       => /\ Dirname(CanonicalForm[s]) \in watches'
          /\ watches \subseteq watches']_vars

\* the worker takes up a notification for an enrolled path
TakesUp(g) == Dispatch(g) /\ protectedFiles[Head(queue).path].present

\* C16: the first notification for a protected path passes the gate, which
\* records the time; a notification that arrives less than the window after
\* the recorded time is suppressed: no event, no verification, no restore,
\* and the recorded time stays.
C16_GateSuppressesWithinWindow ==
  [][\A g \in Gens :
       TakesUp(g) =>
         LET p == Head(queue).path IN
         /\ lastEventTimes[p] = 0
              => /\ lastEventTimes'[p] = now
                 /\ Len(events') > Len(events)
         /\ (lastEventTimes[p] # 0 /\ now - lastEventTimes[p] < CooldownSeconds)
              => /\ events' = events
                 /\ lastEventTimes' = lastEventTimes
                 /\ pc'[g] = "idle"
                 /\ cur'[g] = NoCur
                 /\ disk' = disk]_vars

\* C16 witness: a notification was suppressed four time units after the
\* one that passed
C16_Witness ==
  \E p \in Paths :
    /\ protectedFiles[p].present
    /\ lastEventTimes[p] # 0
    /\ window[p].seen = lastEventTimes[p] + CooldownSeconds - 1
    /\ ~window[p].seenPassed
    /\ window[p].suppressed >= 1

\* verification cycles started by the notification being taken up: one if
\* it passes the gate (every passed notification logs), none if suppressed
CyclesNow == IF Len(events') > Len(events) THEN 1 ELSE 0

\* C17 as claimed: a modify notification taken up less than the window
\* after the previous modify notification for the path makes no more than
\* one verification cycle with it in total, and one taken up more than the
\* window after it makes two, whatever came before them.
C17_TwoModifications ==
  [][\A g \in Gens :
       (/\ TakesUp(g)
        /\ Head(queue).kind = "modified"
        /\ window[Head(queue).path].seenKind = "modified")
       => LET w == window[Head(queue).path]
              first == IF w.seenPassed THEN 1 ELSE 0
          IN /\ now - w.seen < CooldownSeconds => first + CyclesNow <= 1
             /\ now - w.seen > CooldownSeconds => first + CyclesNow = 2]_vars

\* C17 amended: when the previous notification for the path was a modify
\* notification that passed the gate, a modify notification taken up less
\* than the window after it is suppressed (one cycle in total) and one
\* taken up at least the window after it passes (two cycles).
C17_AfterPassedModification ==
  [][\A g \in Gens :
       (/\ TakesUp(g)
        /\ Head(queue).kind = "modified"
        /\ window[Head(queue).path].seenKind = "modified"
        /\ window[Head(queue).path].seenPassed)
       => LET w == window[Head(queue).path]
          IN /\ now - w.seen < CooldownSeconds => CyclesNow = 0
             /\ now - w.seen >= CooldownSeconds => CyclesNow = 1]_vars

\* the verification cycles in the log for path p
Detections(p) ==
  SelectSeq(events, LAMBDA e : e = Event("info", "file modification detected", p))

\* C17 witness: two modify notifications a window apart have both passed
C17_Witness ==
  \E p \in Paths :
    /\ window[p].seenKind = "modified"
    /\ window[p].seenPassed
    /\ window[p].seen = now
    /\ window[p].start = now
    /\ now >= StartTime + CooldownSeconds
    /\ Len(Detections(p)) = 2

\* C20: no reader of a protected path ever finds the file of a restore in
\* progress empty or cut short: the path holds what it held before the
\* restore, or the whole decrypted backup (no other writer and no backup
\* here ever produces an empty file).
C20_NoPartialFile == \A p \in Paths : disk[p] # Empty

\* worker g invokes the restore of p in this step: _auto_restore finds the
\* entry and logs its start
RestoreStarts(g, p) ==
  /\ Dispatch(g) \/ OnViolationReturn(g)
  /\ Logs(Appended, Event("restore", "starting automatic restore", p))

\* C18: a restore invoked for an entry without a backup reference ends in
\* the same handler call with an error event as the last event logged, the
\* disk untouched and the worker back at idle, so that neither the write
\* nor the restore notification is reached.
C18_NoBackupReferenceAborts ==
  [][\A g \in Gens, p \in Paths :
       (RestoreStarts(g, p) /\ protectedFiles[p].doc_id = NoDoc)
       => /\ events'[Len(events')] = Event("error", "encrypted backup not found", p)
          /\ disk' = disk
          /\ pc'[g] = "idle"
          /\ cur'[g] = NoCur]_vars

\* C18 witness: a modification of a file whose entry has no backup
\* reference was detected, reported to the violation sink, and its restore
\* aborted; the file still holds the modified content
C18_Witness ==
  /\ protectedFiles["/a/x"] = FileInfo("H0", NoDoc)
  /\ Len(events) = 5
  /\ events[3] = Event("warning", "attempted content", "/a/x")
  /\ events[4] = Event("restore", "starting automatic restore", "/a/x")
  /\ events[5] = Event("error", "encrypted backup not found", "/a/x")
  /\ disk["/a/x"] = "c1"
  /\ \A g \in Gens : pc[g] = "idle"

\* the store has no blob for the reference, or the blob does not decrypt
FetchFails(g) == ~store[cur[g].data].present \/ ~store[cur[g].data].valid

\* C19: when the store returns no blob or the blob does not decrypt, the
\* restore ends with one error event, the disk as it was, the restore
\* notification not reached, and the worker thread alive and idle, ready
\* for the next notification.
C19_FetchOrDecryptFailureAborts ==
  [][\A g \in Gens :
       (FetchDone(g) /\ FetchFails(g))
       => /\ Len(events') = Len(events) + 1
          /\ events'[Len(events')].type = "error"
          /\ events'[Len(events')].filepath = cur[g].path
          /\ disk' = disk
          /\ pc'[g] = "idle"
          /\ cur'[g] = NoCur
          /\ obsState'[g] = "running"
          /\ queue' = queue]_vars

\* C19 witness: the restore of a deleted file failed at the decryption,
\* the file is still missing, and the worker has since taken up another
\* notification for the path
C19_Witness ==
  /\ events # <<>>
  /\ events[Len(events)] = Event("error", "restore error", "/a/x")
  /\ disk["/a/x"] = Absent
  /\ window["/a/x"].restores = 1
  /\ window["/a/x"].suppressed >= 1
  /\ \A g \in Gens : pc[g] = "idle"

\* worker g is inside _auto_restore for a path, between the start of the
\* fetch and the end of the write
Restoring(g) == pc[g] \in {"fetch", "write", "writing"}

\* C21: never are two restores of the same path in progress at once.
C21_OneRestorePerPath ==
  \A g1, g2 \in Gens :
    (g1 # g2 /\ Restoring(g1) /\ Restoring(g2)) => cur[g1].path # cur[g2].path

\* worker g takes up a modify notification for an enrolled path that passes
\* the gate and finds the file of content class c
Verifies(g, c) ==
  /\ TakesUp(g)
  /\ Head(queue).kind = "modified"
  /\ ~IsInCooldown(Head(queue).path)
  /\ protectedFiles[Head(queue).path].file_hash # NoHash
  /\ disk[Head(queue).path] = c

\* a step in which the handling of a notification by worker g fails
FailureStep(g) ==
  \/ Verifies(g, Unreadable)
  \/ FetchDone(g) /\ FetchFails(g)
  \/ Fails(g)

\* C22: every failure while a notification is handled ends the handler
\* call with an error event as the last event logged, and leaves the worker
\* thread running and idle, ready for the next notification.
C22_FailuresAreCaught ==
  [][\A g \in Gens :
       (handler = g /\ FailureStep(g))
       => /\ Len(events') > Len(events)
          /\ events'[Len(events')].type = "error"
          /\ pc'[g] = "idle"
          /\ obsState'[g] = "running"]_vars

\* C28: a modify notification that passes the gate and finds the file
\* missing or unreadable ends with an error event for the path; no
\* violation event, no violation notification, no restore, and the disk is
\* as it was.
C28_UnreadableIsErrorOnly ==
  [][\A g \in Gens :
       (Verifies(g, Absent) \/ Verifies(g, Unreadable))
       => LET p == Head(queue).path IN
          /\ events'[Len(events')] =
               Event("error", "current hash could not be calculated", p)
          /\ \A i \in DOMAIN Appended : Appended[i].type \in {"info", "error"}
          /\ pc'[g] = "idle"
          /\ cur'[g] = NoCur
          /\ disk' = disk
          /\ window'[p].violations = 0
          /\ window'[p].restores = 0]_vars

\* C28 witness: the check of an unreadable file logged both error events
\* and the file is still unreadable, the worker idle
C28_Witness ==
  /\ Len(events) >= 3
  /\ events[Len(events)] =
       Event("error", "current hash could not be calculated", "/a/x")
  /\ events[Len(events) - 1].message = "hash calculation error"
  /\ disk["/a/x"] = Unreadable
  /\ \A g \in Gens : pc[g] = "idle"

\* C23: no control call ever lets an exception reach its caller: each one
\* returns a value, in every state.
C23_ControlCallsReturn == ~ret.raised

\* a worker is attached: the service has an observer whose thread runs
WorkerAttached == observer # 0 /\ obsState[observer] = "running"

\* C24: in every state a caller can observe, the running flag is true
\* exactly when a worker is attached, and no handler call is in progress
\* while the flag is false.
C24_RunningIffAttached ==
  /\ isRunning <=> WorkerAttached
  /\ ~isRunning => \A g \in Gens : pc[g] = "idle"

\* worker g takes up a modify notification that passes the gate and finds a
\* digest other than the baseline
FindsMismatch(g) ==
  /\ \E c \in Contents \cup {Empty} : Verifies(g, c)
  /\ Sha256(disk[Head(queue).path]) # protectedFiles[Head(queue).path].file_hash

\* the violation events for p among evs
ViolationsIn(evs, p) ==
  SelectSeq(evs, LAMBDA e : e.type = "violation" /\ e.filepath = p)

\* the step that finds the mismatch logs one violation event and enters the
\* violation notification with (path, expected, actual), the restore not
\* yet begun; the step after the notification logs the restore event
MismatchInOrder(g) ==
  /\ (FindsMismatch(g) /\ callbacks[g].violation) =>
       LET p == Head(queue).path IN
       /\ Len(ViolationsIn(Appended, p)) = 1
       /\ \A i \in DOMAIN Appended : Appended[i].type # "restore"
       /\ pc'[g] = "on_violation"
       /\ cur'[g].path = p
       /\ cur'[g].expected = protectedFiles[p].file_hash
       /\ cur'[g].actual = Sha256(disk[p])
  /\ (OnViolationReturn(g) /\ handler = g /\ protectedFiles[cur[g].path].present) =>
       /\ Len(Appended) >= 1
       /\ Appended[1] = Event("restore", "starting automatic restore", cur[g].path)

\* the restore of a detected modification has written the file: the digest
\* on disk is the baseline
MismatchRestored(g) ==
  (WriteFile(g) /\ cur[g].reason = "modified") =>
    /\ protectedFiles'[cur[g].path].present
    /\ CalculateFileHash(disk'[cur[g].path]) = protectedFiles'[cur[g].path].file_hash

\* C25: on a digest other than the baseline the violation event is logged
\* first, then the violation notification is invoked with (path, expected,
\* actual), then the restore runs and logs its restore event; and when the
\* restore has written the file, the digest on disk is the baseline.
C25_ViolationNotifyRestore ==
  [][\A g \in Gens : MismatchInOrder(g) /\ MismatchRestored(g)]_vars

\* the restore events for p among evs
RestoresIn(evs, p) ==
  SelectSeq(evs, LAMBDA e : e.type = "restore" /\ e.filepath = p)

\* the restore notification is entered by worker g in this step
EntersOnRestore(g) == pc[g] # "on_restore" /\ pc'[g] = "on_restore"

\* C26: a restore event is logged by the step in which a restore has
\* written the decrypted backup, once, and by no other step; that step
\* invokes the restore notification with (path, reason), and no other step
\* invokes it, so an aborted restore leaves no restore event and no
\* notification.
C26_RestoreEventOnSuccessOnly ==
  [][\A g \in Gens :
       /\ (handler = g /\ WriteFile(g)) =>
            /\ Len(RestoresIn(Appended, cur[g].path)) = 1
            /\ callbacks[g].restore =>
                 /\ pc'[g] = "on_restore"
                 /\ cur'[g].path = cur[g].path
                 /\ cur'[g].reason = cur[g].reason
       /\ (handler = g /\ pc'[g] # pc[g] /\ ~WriteFile(g)) =>
            \A p \in Paths : RestoresIn(Appended, p) = <<>>
       /\ EntersOnRestore(g) => WriteFile(g)]_vars

\* the restore notification is invoked only by the step that wrote the
\* file, with the path and the reason of the restore
NotifiedOnSuccessOnly ==
  [][\A g \in Gens :
       /\ EntersOnRestore(g) =>
            /\ WriteFile(g)
            /\ cur'[g].path = cur[g].path
            /\ cur'[g].reason = cur[g].reason
       /\ (WriteFile(g) /\ callbacks[g].restore) => EntersOnRestore(g)]_vars

\* worker g takes up a modify notification that passes the gate and finds
\* the digest of the file equal to the baseline
FindsMatch(g) ==
  /\ \E c \in Contents \cup {Empty} : Verifies(g, c)
  /\ Sha256(disk[Head(queue).path]) = protectedFiles[Head(queue).path].file_hash

\* C27: a verification that finds the digest equal to the baseline logs
\* exactly one success event, after the detection event of the notification
\* and nothing else; no violation, no notification, no restore, and the
\* disk is as it was.
C27_MatchLogsSuccessOnly ==
  [][\A g \in Gens :
       FindsMatch(g) =>
         LET p == Head(queue).path IN
         /\ Appended = <<Event("info", "file modification detected", p),
                         Event("success", "integrity verified", p)>>
         /\ pc'[g] = "idle"
         /\ cur'[g] = NoCur
         /\ disk' = disk
         /\ window'[p].violations = 0
         /\ window'[p].restores = 0]_vars

\* C27 witness: a write that kept the baseline content was verified
C27_Witness ==
  /\ Len(events) = 2
  /\ events[2] = Event("success", "integrity verified", "/a/x")
  /\ CalculateFileHash(disk["/a/x"]) = protectedFiles["/a/x"].file_hash
  /\ lastEventTimes["/a/x"] # 0
  /\ \A g \in Gens : pc[g] = "idle"

\* C29: whatever its kind, a notification taken up for an enrolled path is
\* suppressed exactly when it arrives less than the window after the time
\* recorded for the path, and then leaves log and recorded time alone;
\* otherwise it passes, logs, and records the arrival time.
C29_GateIgnoresKind ==
  [][\A g \in Gens, k \in {"modified", "deleted"} :
       (TakesUp(g) /\ Head(queue).kind = k) =>
         LET p == Head(queue).path IN
         IF now - lastEventTimes[p] < CooldownSeconds
         THEN /\ events' = events
              /\ lastEventTimes' = lastEventTimes
              /\ pc'[g] = "idle"
         ELSE /\ Len(events') > Len(events)
              /\ lastEventTimes' = [lastEventTimes EXCEPT ![p] = now]]_vars

\* C29 witness: a delete notification was suppressed in the window opened
\* by a modify notification
C29_Witness ==
  \E p \in Paths :
    /\ window[p].seenKind = "deleted"
    /\ ~window[p].seenPassed
    /\ lastEventTimes[p] # 0
    /\ Len(Detections(p)) = 1
    /\ ViolationsIn(events, p) = <<>>
    /\ disk[p] = Absent

\* a modify notification was suppressed in the window opened by a delete
\* notification
ModifySuppressedAfterDelete ==
  \E p \in Paths :
    /\ window[p].seenKind = "modified"
    /\ ~window[p].seenPassed
    /\ lastEventTimes[p] # 0
    /\ Detections(p) = <<>>
    /\ Len(ViolationsIn(events, p)) = 1

\* C30: a step of the worker changes the recorded time of no path other
\* than the one whose notification it takes up, and a notification for a
\* path with no recorded time, or taken up at least the window after its
\* own recorded time, passes whatever was recorded for other paths.
C30_CooldownPerPath ==
  [][\A g \in Gens :
       /\ (Worker(g) /\ ~Dispatch(g)) => lastEventTimes' = lastEventTimes
       /\ TakesUp(g) =>
            LET p == Head(queue).path IN
            /\ \A q \in Paths \ {p} : lastEventTimes'[q] = lastEventTimes[q]
            /\ now - lastEventTimes[p] >= CooldownSeconds
                 => /\ Len(events') > Len(events)
                    /\ lastEventTimes'[p] = now]_vars

\* C30 witness: a notification for /a/y passed inside the window opened by
\* a notification for /a/x, whose recorded time stayed
C30_Witness ==
  /\ lastEventTimes["/a/x"] # 0
  /\ lastEventTimes["/a/y"] > lastEventTimes["/a/x"]
  /\ lastEventTimes["/a/y"] - lastEventTimes["/a/x"] < CooldownSeconds
  /\ Len(Detections("/a/x")) = 1
  /\ Len(Detections("/a/y")) = 1

\* the step of worker g leaves log, cooldown map, disk and sinks alone and
\* ends the handler call at once
NoEffect(g) ==
  /\ events' = events
  /\ lastEventTimes' = lastEventTimes
  /\ disk' = disk
  /\ pc'[g] = "idle"
  /\ cur'[g] = NoCur

\* C31: a notification taken up for a path that is not in the registry at
\* that time has no effect: no event, no recorded time, no sink, no write.
C31_UnenrolledIsIgnored ==
  [][\A g \in Gens :
       (Dispatch(g) /\ ~protectedFiles[Head(queue).path].present) => NoEffect(g)]_vars

\* C31 witness: on a running service a notification for /a/x was dropped
\* after Remove had returned true, the file holding tampered content
C31_Witness ==
  /\ isRunning
  /\ ~protectedFiles["/a/x"].present
  /\ protectedFiles["/a/y"].present
  /\ ret.op = "remove"
  /\ ret.val = TRUE
  /\ window["/a/x"].seenKind = "unenrolled"
  /\ disk["/a/x"] = "c1"
  /\ events = <<>>
  /\ lastEventTimes["/a/x"] = 0

\* C35: a created or moved notification taken up for an enrolled path has
\* no effect: no recorded time, no verification, no event, no restore.
C35_OnlyModifyAndDelete ==
  [][\A g \in Gens :
       (TakesUp(g) /\ Head(queue).kind \in {"created", "moved"}) => NoEffect(g)]_vars

\* C35 witness: a file of other content was renamed over the enrolled
\* path, the moved notification was dropped, and the path keeps that content
C35_Witness ==
  /\ isRunning
  /\ protectedFiles["/a/x"].present
  /\ window["/a/x"].seenKind = "moved"
  /\ CalculateFileHash(disk["/a/x"]) # protectedFiles["/a/x"].file_hash
  /\ events = <<>>
  /\ queue = <<>>
  /\ \A g \in Gens : pc[g] = "idle"

\* worker g looks an entry up in the registry: the membership test and the
\* baseline lookup when it takes a notification up, the restore lookup
\* when the violation sink has returned
ReadsRegistry(g) == Dispatch(g) \/ OnViolationReturn(g)

\* C32: every registry access happens under the registry mutex; the worker
\* therefore never looks an entry up while a control call holds the mutex.
C32_RegistryUnderMutex ==
  [][\A g \in Gens : ReadsRegistry(g) => lock = "free"]_vars

\* the step of worker g detects a violation of p: it logs a violation event
DetectsViolation(g, p) ==
  /\ Dispatch(g)
  /\ Len(ViolationsIn(events', p)) > Len(ViolationsIn(events, p))

\* C33: every detected violation of a protected file, by modification or
\* by deletion, invokes the violation notification sink the worker was
\* started with.
C33_SinkOnEveryViolation ==
  [][\A g \in Gens : \A p \in Paths :
       (DetectsViolation(g, p) /\ callbacks[g].violation) =>
         /\ pc'[g] = "on_violation"
         /\ cur'[g].path = p]_vars

\* the part of C33 that holds: a violation detected on a modify
\* notification invokes the sink
SinkOnModifyViolation ==
  [][\A g \in Gens : \A p \in Paths :
       (DetectsViolation(g, p) /\ callbacks[g].violation
          /\ Head(queue).kind = "modified") =>
         /\ pc'[g] = "on_violation"
         /\ cur'[g].path = p]_vars

\* C34: a suppressed notification leaves the recorded time of its path as
\* it was, so the recorded time is always that of the last notification
\* that passed, and the next notification is judged by it: it passes when
\* at least the window has gone by since the last passed one, however
\* recent the suppressed ones after it are, and is suppressed otherwise.
C34_WindowFromLastPassed ==
  [][\A g \in Gens :
       (/\ TakesUp(g)
        /\ window[Head(queue).path].seenKind \in {"modified", "deleted"})
       => LET p == Head(queue).path
              w == window[p]
          IN /\ lastEventTimes[p] = w.start
             /\ w.seenPassed => w.seen = lastEventTimes[p]
             /\ ~w.seenPassed => /\ w.seen >= lastEventTimes[p]
                                 /\ w.seen - lastEventTimes[p] < CooldownSeconds
             /\ now - lastEventTimes[p] >= CooldownSeconds
                  => /\ lastEventTimes'[p] = now
                     /\ CyclesNow = 1
             /\ now - lastEventTimes[p] < CooldownSeconds
                  => /\ lastEventTimes' = lastEventTimes
                     /\ CyclesNow = 0]_vars

\* C34 witness: two notifications were suppressed, the later one four time
\* units after the one that passed, the recorded time is still that of the
\* passed one, and the next notification waits a full window after it
C34_Witness ==
  \E p \in Paths :
    /\ protectedFiles[p].present
    /\ window[p].suppressed >= 2
    /\ ~window[p].seenPassed
    /\ lastEventTimes[p] = window[p].start
    /\ window[p].seen = lastEventTimes[p] + CooldownSeconds - 1
    /\ now = lastEventTimes[p] + CooldownSeconds
    /\ queue # <<>>
    /\ Head(queue).path = p

\* path p holds the content its backup decrypts to
HoldsBackup(p) ==
  /\ protectedFiles[p].present
  /\ protectedFiles[p].doc_id # NoDoc
  /\ store[protectedFiles[p].doc_id].present
  /\ disk[p] = store[protectedFiles[p].doc_id].content

\* C36: the modify notification raised by a restore's own write starts no
\* further violation/restore cycle, also when the backup decrypts to other
\* content than the baseline: no verification finds a violation in a file
\* that holds what the restore wrote.
C36_OwnWriteStartsNoCycle ==
  [][\A g \in Gens :
       ~(FindsMismatch(g) /\ HoldsBackup(Head(queue).path))]_vars

\* C37: log and cooldown map belong to the handler that Start creates: a
\* Stop leaves them, so GetEvents on the stopped service still returns the
\* events logged before; a Start that succeeds replaces them by an empty
\* log and an empty cooldown map, and the first notification for a path
\* passes again; with no handler yet, GetEvents returns the empty list and
\* ClearEvents changes nothing.
C37_LogLivesWithHandler ==
  [][/\ StopFinish => /\ events' = events
                      /\ lastEventTimes' = lastEventTimes
                      /\ handler' = handler
     /\ (~isRunning /\ handler # 0 /\ GetEventsCall(1))
          => /\ ret'.val = MostRecent(1)
             /\ events' = events
     /\ (~StartRefuses /\ Start(TRUE, TRUE))
          => /\ events' = <<>>
             /\ lastEventTimes' = [p \in Paths |-> 0]
             /\ ret' = Ret("start", TRUE)
     /\ \A g \in Gens :
          (TakesUp(g) /\ lastEventTimes[Head(queue).path] = 0)
            => /\ lastEventTimes'[Head(queue).path] = now
               /\ Len(events') > Len(events)
     /\ (handler = 0 /\ GetEventsCall(1)) => ret'.val = <<>>
     /\ (handler = 0 /\ ClearEventsCall) => OnlyRetChanges]_vars

\* C37 witness: GetEvents on the stopped service has returned the last
\* event logged before the Stop
C37_Witness ==
  /\ ~isRunning
  /\ handler # 0
  /\ obsState[handler] = "stopped"
  /\ events # <<>>
  /\ ret.op = "get_events"
  /\ ret.val = MostRecent(1)

\* the other case of C37: after a Stop the second Start has succeeded, and a
\* notification for /a/x has passed the gate of the new handler in the
\* second in which the service was started first
RestartedEmpty ==
  /\ handler = 2
  /\ obsState[1] = "stopped"
  /\ isRunning
  /\ now = StartTime
  /\ lastEventTimes["/a/x"] = now
  /\ events # <<>>

\* the next step of the handler call worker g is in
HandlerStep(g) ==
  \/ OnViolationReturn(g)
  \/ FetchDone(g)
  \/ OpenForWrite(g)
  \/ WriteFile(g)
  \/ OnRestoreReturn(g)

\* C38: nothing waits in a cycle. A worker inside a handler call can always
\* take its next step, whoever holds the registry mutex (the handler takes
\* its cooldown and log locks one at a time and never the registry mutex);
\* a Stop that holds the mutex in join can finish as soon as the worker has
\* ended or the join timeout has run out; with the mutex free Add, Remove
\* and Status can proceed whatever the worker is doing, and GetEvents and
\* ClearEvents can proceed in every state.
C38_NoCyclicWait ==
  /\ \A g \in Gens : pc[g] # "idle" => ENABLED HandlerStep(g)
  /\ lock = "stop" =>
       \/ ENABLED StopFinish
       \/ (now - joinStart < JoinTimeout /\ ENABLED Tick)
  /\ lock = "free" =>
       /\ ENABLED AddProtectedFile("/a/x", FileInfo("H0", "B0"))
       /\ ENABLED RemoveProtectedFile("/a/x")
       /\ ENABLED GetStatusCall
  /\ ENABLED GetEventsCall(1)
  /\ ENABLED ClearEventsCall

\* C38 witness: Stop holds the registry mutex in join while the worker is
\* inside a handler call, waiting for the violation sink to return
C38_Witness ==
  /\ lock = "stop"
  /\ observer # 0
  /\ pc[observer] = "on_violation"
  /\ now - joinStart < JoinTimeout

\* C39: every path of the registry has its backup document in the store,
\* after any sequence of uploads, deletes, starts and stops through the API.
C39_NoDanglingBackup ==
  \A p \in RegistryKeys :
    /\ protectedFiles[p].doc_id # NoDoc
    /\ store[protectedFiles[p].doc_id].present


\* time passes, and a control call blocked in join(timeout) resumes
LiveSpec == LifeSpec /\ WF_vars(Tick) /\ WF_vars(StopFinish)

====
